---------------------------- MODULE Spec2Model ----------------------------
(***************************************************************************)
(* PSPF/2025 launcher: concurrent launches of one package against one      *)
(* shared cache.  Every launch is one OS process running launch()          *)
(* (launcher/mod.rs); the processes share the content root                 *)
(* <cache>/workenv/<name>/ and the hidden metadata directory               *)
(* <cache>/workenv/.<name>.pspf/ (lock, complete, package.checksum,        *)
(* tmp/<pid>/).  An action is one file-system step of launch(), so that    *)
(* the interleavings of check-then-act sequences are the ones the          *)
(* operating system allows.                                                *)
(*                                                                         *)
(* Not modelled: the bytes of the extracted files, psp.json and index.json *)
(* (written, never read by launch()), permission bits (every chmod in the  *)
(* modelled steps re-applies the mode the same step family applied         *)
(* before), and I/O errors of system calls other than the ones the code    *)
(* takes a decision on (a missing lock file on remove, AlreadyExists on    *)
(* create, an extraction or setup-command failure).                        *)
(***************************************************************************)
EXTENDS Integers, Sequences, FiniteSets, TLC

\* ------------------------------------------------------------------ bounds
NumProcs == 2        \* launches that race from the start
PidBase == 40        \* launch p runs as OS process PidBase + p
MaxForced == 1       \* launches started with FLAVOR_WORKENV_CACHE=false
PayloadSize == 1000   \* bytes of a built package before its trailer
PkgChecksum == 43981 \* index_checksum of the launched package (0x0000abcd)
OldChecksum == 4660  \* index_checksum of an earlier build (0x00001234)

\* one more launch of the same package, which only SpecExtra lets start
Extra == NumProcs + 1
Procs == 1 .. Extra
Pid(p) == PidBase + p
\* the extractor of an earlier build, dead long before these launches
OldPid == PidBase

NoFile == <<"<absent>">>
Absent == [by |-> -1, sub |-> FALSE, fixed |-> FALSE]

\* ------------------------------------------------------------ the package
\* top-level entries the slots of the package unpack to
SlotEntries == {"bin", "lib"}
\* metadata.workenv.directories: one directory below a packaged entry
WorkenvDirs == {<<"lib", "plugins">>}
\* the write test of check_disk_space
SpaceTest == ".space_test"
RootNames == SlotEntries \cup {SpaceTest}

\* ------------------------------------------------------- text conversions
Digits == <<"0", "1", "2", "3", "4", "5", "6", "7", "8", "9",
            "a", "b", "c", "d", "e", "f">>
Whitespace == {" ", "\n", "\t", "\r"}

RECURSIVE DecStr(_)
\* format!("{}", n) of an unsigned integer
DecStr(n) ==
    IF n < 10 THEN <<Digits[n + 1]>>
    ELSE DecStr(n \div 10) \o <<Digits[(n % 10) + 1]>>

RECURSIVE HexStr(_, _)
\* the low `width` hex digits of n, most significant first
HexStr(n, width) ==
    IF width = 0 THEN <<>>
    ELSE HexStr(n \div 16, width - 1) \o <<Digits[(n % 16) + 1]>>

\* format!("{:08x}", n) of a u32: 8 digits, zero padded, lower case
Hex8(n) == HexStr(n, 8)

RECURSIVE TrimLeft(_)
TrimLeft(s) ==
    IF s # <<>> /\ Head(s) \in Whitespace THEN TrimLeft(Tail(s)) ELSE s

RECURSIVE TrimRight(_)
TrimRight(s) ==
    IF s # <<>> /\ s[Len(s)] \in Whitespace
    THEN TrimRight(SubSeq(s, 1, Len(s) - 1)) ELSE s

\* str::trim
Trim(s) == TrimRight(TrimLeft(s))

DigitValue(c) == CHOOSE d \in 0 .. 9 : Digits[d + 1] = c

RECURSIVE ParseAcc(_, _)
ParseAcc(s, acc) ==
    IF s = <<>> THEN acc
    ELSE ParseAcc(Tail(s), acc * 10 + DigitValue(Head(s)))

ParseFail == -1
\* str::parse::<u32>: ParseFail for the empty string and for a non-digit
ParseU32(s) ==
    IF s = <<>> \/ \E i \in 1 .. Len(s) : s[i] \notin {Digits[d] : d \in 1 .. 10}
    THEN ParseFail
    ELSE ParseAcc(s, 0)

\* writeln!(file, "{pid}")
PidLine(pid) == DecStr(pid) \o <<"\n">>

\* ------------------------------------------------------------------ state
VARIABLES
    pc,         \* pc[p]: where launch p is in launch()
    use_cache,  \* use_cache[p]: FLAVOR_WORKENV_CACHE is not "false"/"0"
    level,      \* level[p]: get_validation_level() in launch p
    acquired,   \* acquired[p]: acquired_lock, try_acquire_lock returned Ok(true)
    ended,      \* ended[p]: why p failed, or where it was when it died
    lock,       \* instance/extract/lock: who created the file, and its bytes
    complete,   \* instance/extract/complete: its bytes
    checksum,   \* instance/package.checksum: its bytes
    root,       \* content root: per top-level name, what is there
    tmp,        \* tmp[p]: the entries of tmp/<pid of p>/, or NoDir
    cache0,     \* how the cache was before the first launch: "fresh", "old"
    package,    \* the package file that is opened: its size, what is damaged
    inp,        \* the argument of a call made outside a launch
    out         \* what that call returned

\* what no step of a launch writes
aux == <<package, inp, out>>

\* no call is made outside the launches
NoCall == [call |-> "none"]

vars == <<pc, use_cache, level, acquired, ended, lock, complete, checksum,
          root, tmp, cache0, aux>>

Levels == {"none", "minimal", "relaxed", "standard", "strict"}
\* DEFAULT_VALIDATION_LEVEL
DefaultLevel == "standard"
NoLock == [creator |-> 0, content |-> NoFile]
NoDir == {"<no directory>"}
\* an entry made by create_dir_all rather than by an extraction
MkdirBy == 0

Live(p) == pc[p] \notin {"absent", "start", "done", "failed", "crashed"}

\* is_process_running: /proc/<pid> exists
is_process_running(pid) == \E q \in Procs : Pid(q) = pid /\ Live(q)

Goto(p, loc) == pc' = [pc EXCEPT ![p] = loc]

Fail(p, why) ==
    /\ pc' = [pc EXCEPT ![p] = "failed"]
    /\ ended' = [ended EXCEPT ![p] = why]

\* ------------------------------------------------------- the package file
\* MAGIC_TRAILER_SIZE: package emoji (4) + index (8192) + wand emoji (4)
MAGIC_TRAILER_SIZE == 8200

\* what of a built package may have been changed after the build:
\*   head, wand   the emoji before and after the index block
\*   adler        the index block, so that its Adler-32 no longer matches
\*   sha          the compressed metadata
\*   size         the length of the file (package_size of the index differs)
\*   seal         the Ed25519 signature or the public key (or both are zero)
\*   slots        a byte of the slot-data region
Parts == {"head", "wand", "adler", "sha", "size", "seal", "slots"}

\* a file shorter than a trailer
ShortSize == 100

\* the files a launch is given
Packages == [file_size : {ShortSize, MAGIC_TRAILER_SIZE, MAGIC_TRAILER_SIZE + PayloadSize},
             tampered : SUBSET Parts]

\* a package as the builder wrote it
Intact == [file_size |-> MAGIC_TRAILER_SIZE + PayloadSize, tampered |-> {}]

\* detect_package_format: the size and the two emoji of the trailer
detect_package_format(pkg) ==
    IF /\ pkg.file_size >= MAGIC_TRAILER_SIZE
       /\ "wand" \notin pkg.tampered
       /\ "head" \notin pkg.tampered
    THEN "PSPF2025"
    ELSE "unsupported"

\* a - b in u64: below zero the result wraps around to 2^64 + (a - b), which
\* is written here as the flag and the distance below zero
u64_sub(a, b) ==
    IF a >= b THEN [wrapped |-> FALSE, value |-> a - b]
    ELSE [wrapped |-> TRUE, value |-> b - a]

\* Backend::read_at: seek(SeekFrom::Start(offset)), read_exact of size bytes;
\* an offset above i64::MAX, as every wrapped one is, fails in seek, and a
\* read past the end of the file in read_exact
read_at(offset, size, file_size) ==
    IF offset.wrapped THEN "io"
    ELSE IF offset.value + size > file_size THEN "io"
    ELSE "ok"

\* Reader::read_magic_trailer: file_size - MAGIC_TRAILER_SIZE is a u64
\* subtraction, which panics when the build checks overflow and wraps around
\* to an offset no file has when it does not
read_magic_trailer(pkg, overflow_checks) ==
    IF u64_sub(pkg.file_size, MAGIC_TRAILER_SIZE).wrapped /\ overflow_checks
    THEN "panic"
    ELSE IF read_at(u64_sub(pkg.file_size, MAGIC_TRAILER_SIZE),
                    MAGIC_TRAILER_SIZE, pkg.file_size) # "ok"
    THEN "io_seek"
    ELSE IF "head" \in pkg.tampered THEN "bad_head"
    ELSE IF "wand" \in pkg.tampered THEN "bad_wand"
    ELSE "ok"

\* Reader::read_index: the trailer, Index::unpack; a wrong index checksum is
\* only logged
read_index(pkg, overflow_checks) == read_magic_trailer(pkg, overflow_checks)

\* read_metadata that does not compare the checksum
read_metadata_unchecked(pkg) == "ok"

\* Reader::read_metadata: the SHA-256 of the compressed metadata is compared
\* with metadata_checksum of the index
read_metadata(pkg) ==
    IF "sha" \in pkg.tampered THEN "metadata_checksum" ELSE "ok"

\* the five results verify() combines
verify_index_checksum(pkg) == "adler" \notin pkg.tampered
verify_metadata_checksum(pkg) == "sha" \notin pkg.tampered
size_valid(pkg) == "size" \notin pkg.tampered
verify_integrity_seal(pkg) == "seal" \notin pkg.tampered
verify_trailing_magic(pkg) == "wand" \notin pkg.tampered

\* verify() that leaves the package size out of signature_valid
verify_without_size(pkg, overflow_checks) ==
    IF read_index(pkg, overflow_checks) # "ok"
    THEN [err |-> read_index(pkg, overflow_checks), signature_valid |-> FALSE]
    ELSE IF read_metadata(pkg) # "ok"
    THEN [err |-> read_metadata(pkg), signature_valid |-> FALSE]
    ELSE [err |-> "ok",
          signature_valid |-> /\ verify_index_checksum(pkg)
                              /\ verify_metadata_checksum(pkg)
                              /\ verify_integrity_seal(pkg)
                              /\ verify_trailing_magic(pkg)]

\* verify(): an error of the reader, or the VerifyResult
verify(pkg, overflow_checks) ==
    IF read_index(pkg, overflow_checks) # "ok"
    THEN [err |-> read_index(pkg, overflow_checks), signature_valid |-> FALSE]
    ELSE IF read_metadata(pkg) # "ok"
    THEN [err |-> read_metadata(pkg), signature_valid |-> FALSE]
    ELSE [err |-> "ok",
          signature_valid |-> /\ verify_index_checksum(pkg)
                              /\ verify_metadata_checksum(pkg)
                              /\ size_valid(pkg)
                              /\ verify_integrity_seal(pkg)
                              /\ verify_trailing_magic(pkg)]

\* every tier treats a failed verification as strict does
signature_failure_fatal(lvl) == "signature"

\* launch() lines 68-118: what a failed verification means under level lvl
signature_failure(lvl) ==
    IF lvl = "strict" THEN "signature" ELSE "ok"

\* launch() lines 68-121: the reader, the verification the level asks for,
\* the metadata; "ok" or the error launch() returns
launch_verification(pkg, lvl, overflow_checks) ==
    IF read_index(pkg, overflow_checks) # "ok"
    THEN read_index(pkg, overflow_checks)
    ELSE IF lvl # "none" /\ verify(pkg, overflow_checks).err # "ok"
    THEN verify(pkg, overflow_checks).err
    ELSE IF lvl # "none" /\ ~verify(pkg, overflow_checks).signature_valid
                        /\ signature_failure(lvl) # "ok"
    THEN signature_failure(lvl)
    ELSE read_metadata(pkg)

\* launch_package: detect_package_format, then launch()
launch_package(pkg, lvl, overflow_checks) ==
    IF detect_package_format(pkg) # "PSPF2025" THEN "unsupported"
    ELSE launch_verification(pkg, lvl, overflow_checks)

\* ------------------------------------------------- errors and exit codes
EXIT_PSPF_ERROR == 102
EXIT_EXTRACTION_ERROR == 103
EXIT_EXECUTION_ERROR == 104
EXIT_IO_ERROR == 106
EXIT_SIGNATURE_ERROR == 107

\* the characters of a file or of a formatted number as one string
RECURSIVE Text(_)
Text(chars) == IF chars = <<>> THEN "" ELSE Head(chars) \o Text(Tail(chars))

\* str::contains
Contains(s, needle) ==
    \E i \in 1 .. (Len(s) - Len(needle) + 1) :
        SubSeq(s, i, i + Len(needle) - 1) = needle

\* impl Display for FlavorError
to_string(e) ==
    IF e.variant = "UnsupportedFormat" THEN "Unsupported format: " \o e.msg
    ELSE IF e.variant = "VerificationFailed" THEN "Verification failed: " \o e.msg
    ELSE IF e.variant = "IoError" THEN "IO error: " \o e.msg
    ELSE IF e.variant = "JsonError" THEN "JSON error: " \o e.msg
    ELSE e.msg

\* the errors a launch that ended with `why` can have returned; cause names
\* the place the error was made at
LaunchErrors(why) ==
    IF why = "unsupported"
    THEN {[cause |-> "bad_trailer", variant |-> "UnsupportedFormat",
           msg |-> "Unknown package format"]}
    ELSE IF why = "signature"
    THEN {[cause |-> "signature", variant |-> "Generic",
           msg |-> "Package signature verification failed"]}
    ELSE IF why = "metadata_checksum"
    THEN {[cause |-> "metadata_checksum", variant |-> "Generic",
           msg |-> "Metadata checksum mismatch"]}
    ELSE IF why = "checksum"
    THEN {[cause |-> "cached_checksum", variant |-> "Generic",
           msg |-> "package checksum mismatch: cached=" \o Text(Trim(checksum))
                       \o ", current=" \o Text(Hex8(PkgChecksum))]}
    ELSE IF why = "io"
    THEN {[cause |-> "lock_io", variant |-> "IoError",
           msg |-> "No such file or directory (os error 2)"]}
    ELSE IF why = "extraction"
    THEN {[cause |-> "slot_index", variant |-> "Generic",
           msg |-> "Slot index 1 out of range"],
          [cause |-> "gzip", variant |-> "Generic",
           msg |-> "Failed to decompress GZIP: corrupt deflate stream"],
          [cause |-> "unknown_op", variant |-> "Generic",
           msg |-> "Unknown operation 99 for slot 0"],
          [cause |-> "op_mismatch", variant |-> "Generic",
           msg |-> "Operation mismatch: slot 0 has TAR operation but is not a tar archive"],
          [cause |-> "slot_write", variant |-> "Generic",
           msg |-> "Failed to write file: No space left on device (os error 28)"]}
    ELSE IF why = "setup"
    THEN {[cause |-> "setup", variant |-> "Generic",
           msg |-> "Command failed with status exit status: 1: pip install"]}
    ELSE IF why = "timeout"
    THEN {[cause |-> "timeout", variant |-> "Generic",
           msg |-> "Timeout waiting for cache extraction to complete"]}
    ELSE IF why = "peer_invalid"
    THEN {[cause |-> "peer_invalid", variant |-> "Generic",
           msg |-> "Cache extraction by another process failed validation"]}
    ELSE {}

\* run(): the exit code of a launch that returned Err(e), by the words of
\* e.to_string()
exit_code(error_msg) ==
    IF Contains(error_msg, "PSPF") \/ Contains(error_msg, "format")
    THEN EXIT_PSPF_ERROR
    ELSE IF Contains(error_msg, "signature") \/ Contains(error_msg, "checksum")
    THEN EXIT_SIGNATURE_ERROR
    ELSE IF Contains(error_msg, "extract")
    THEN EXIT_EXTRACTION_ERROR
    ELSE IF Contains(error_msg, "execute") \/ Contains(error_msg, "spawn")
    THEN EXIT_EXECUTION_ERROR
    ELSE IF Contains(error_msg, "I/O") \/ Contains(error_msg, "file")
    THEN EXIT_IO_ERROR
    ELSE EXIT_EXECUTION_ERROR

\* ------------------------------------------------------------------- Init
\* a cache nothing was ever extracted to
FreshCache ==
    /\ complete = NoFile
    /\ checksum = NoFile
    /\ root = [e \in RootNames |-> Absent]

\* a cache an earlier build of the package was extracted to and launched from
OldCache ==
    /\ complete = PidLine(OldPid)
    /\ checksum = Hex8(OldChecksum)
    /\ root = [e \in RootNames |->
                 IF e \in SlotEntries
                 THEN [by |-> OldPid,
                       sub |-> (\E d \in WorkenvDirs : d[1] = e),
                       fixed |-> TRUE]
                 ELSE Absent]

\* the launches in `starting` are about to start, nothing is locked or staged
NotStarted(starting) ==
    /\ pc = [p \in Procs |-> IF p \in starting THEN "start" ELSE "absent"]
    /\ use_cache = [p \in Procs |-> TRUE]
    /\ acquired = [p \in Procs |-> FALSE]
    /\ ended = [p \in Procs |-> ""]
    /\ lock = NoLock
    /\ tmp = [p \in Procs |-> NoDir]

\* launches against a fresh cache, FLAVOR_VALIDATION unset
Init ==
    /\ NotStarted(Procs \ {Extra})
    /\ level = [p \in Procs |-> DefaultLevel]
    /\ FreshCache
    /\ cache0 = "fresh"
    /\ package = Intact
    /\ inp = NoCall /\ out = NoCall

\* the same with the extra launch
InitExtra ==
    /\ NotStarted(Procs)
    /\ level = [p \in Procs |-> DefaultLevel]
    /\ FreshCache
    /\ cache0 = "fresh"
    /\ package = Intact
    /\ inp = NoCall /\ out = NoCall

\* launches of a new build against the cache of an earlier one, all started
\* with the same FLAVOR_VALIDATION
InitOld ==
    /\ NotStarted(Procs \ {Extra})
    /\ \E lvl \in Levels : level = [p \in Procs |-> lvl]
    /\ OldCache
    /\ cache0 = "old"
    /\ package = Intact
    /\ inp = NoCall /\ out = NoCall

\* ------------------------------------------------- launch(): before the lock
\* setup_workenv_directories: create_dir_all of every declared directory
setup_workenv_directories(r) ==
    [e \in RootNames |->
        IF \E d \in WorkenvDirs : d[1] = e
        THEN IF r[e] = Absent
             THEN [by |-> MkdirBy, sub |-> TRUE, fixed |-> FALSE]
             ELSE [r[e] EXCEPT !.sub = TRUE]
        ELSE r[e]]

\* cleanup_stale_extractions: remove tmp/<name> when <name> parses as the PID
\* of a process that is not running
cleanup_stale_extractions(t) ==
    [q \in Procs |->
        IF t[q] # NoDir /\ ParseU32(DecStr(Pid(q))) # ParseFail
                        /\ ~is_process_running(ParseU32(DecStr(Pid(q))))
        THEN NoDir ELSE t[q]]

\* launch_package and launch() up to line 196: the package is verified (it
\* is only read), then content root and declared directories are created,
\* stale staging directories swept, FLAVOR_WORKENV_CACHE read
Prepare(p) ==
    /\ pc[p] = "start"
    /\ \E overflow_checks \in BOOLEAN :
          LET r == launch_package(package, level[p], overflow_checks) IN
          IF r # "ok"
          THEN /\ Fail(p, r)
               /\ UNCHANGED <<root, tmp, use_cache>>
          ELSE /\ root' = setup_workenv_directories(root)
               /\ tmp' = cleanup_stale_extractions(tmp)
               /\ \E uc \in BOOLEAN :
                     /\ uc \/ Cardinality({q \in Procs : ~use_cache[q]}) < MaxForced
                     /\ use_cache' = [use_cache EXCEPT ![p] = uc]
               /\ Goto(p, "check")
               /\ UNCHANGED ended
    /\ UNCHANGED <<level, acquired, lock, complete, checksum, cache0, aux>>

\* validate_package_checksum that only warns under strict as well
validate_warn_only(lvl) ==
    IF checksum = NoFile THEN "invalid"
    ELSE IF Trim(checksum) = Hex8(PkgChecksum) THEN "valid"
    ELSE "invalid"

\* a bug: the expected text is rendered with {:04x}, four digits short
validate_unpadded(lvl) ==
    IF checksum = NoFile THEN "invalid"
    ELSE IF Trim(checksum) = HexStr(PkgChecksum, 4) THEN "valid"
    ELSE IF lvl = "strict" THEN "error"
    ELSE "invalid"

\* validate_package_checksum under validation level lvl
validate_package_checksum(lvl) ==
    IF checksum = NoFile THEN "invalid"
    ELSE IF Trim(checksum) = Hex8(PkgChecksum) THEN "valid"
    ELSE IF lvl = "strict" THEN "error"
    ELSE "invalid"

\* check_workenv_validity_full: the marker first, then the checksum
check_workenv_validity_full(lvl) ==
    IF complete = NoFile THEN "invalid"
    ELSE validate_package_checksum(lvl)

\* launch() lines 198-220: workenv_valid
workenv_valid(p, lvl) ==
    IF use_cache[p] THEN check_workenv_validity_full(lvl) ELSE "invalid"

CheckValidity(p) ==
    /\ pc[p] = "check"
    /\ LET v == workenv_valid(p, level[p]) IN
          IF v = "valid" THEN Goto(p, "run") /\ UNCHANGED ended
          ELSE IF v = "invalid" THEN Goto(p, "disk") /\ UNCHANGED ended
          ELSE Fail(p, "checksum")
    /\ UNCHANGED <<use_cache, level, acquired, lock, complete, checksum, root,
                   tmp, cache0, aux>>

\* check_disk_space: <root>/.space_test is written and removed again; the
\* content root is as before when the function returns
check_disk_space(r) == [r EXCEPT ![SpaceTest] = Absent]

CheckDiskSpace(p) ==
    /\ pc[p] = "disk"
    /\ root' = check_disk_space([root EXCEPT ![SpaceTest] =
                   [by |-> Pid(p), sub |-> FALSE, fixed |-> FALSE]])
    /\ Goto(p, "lock_exists")
    /\ UNCHANGED <<use_cache, level, acquired, ended, lock, complete, checksum,
                   tmp, cache0, aux>>

\* ------------------------------------------------------ try_acquire_lock
\* lock_path.exists()
LockExists(p) ==
    /\ pc[p] = "lock_exists"
    /\ IF lock = NoLock THEN Goto(p, "lock_create") ELSE Goto(p, "lock_read")
    /\ UNCHANGED <<use_cache, level, acquired, ended, lock, complete, checksum,
                   root, tmp, cache0, aux>>

\* what try_acquire_lock does with the bytes it read from the lock file
StaleDecision(content) ==
    LET old_pid == ParseU32(Trim(content)) IN
    IF old_pid # ParseFail /\ is_process_running(old_pid)
    THEN "wait"          \* held by an active process: Ok(false)
    ELSE "lock_remove"   \* dead process or no PID: remove the file

\* fs::read_to_string(&lock_path), parse, is_process_running
LockRead(p) ==
    /\ pc[p] = "lock_read"
    /\ IF lock = NoLock
       THEN Goto(p, "lock_remove")      \* unreadable: remove it
       ELSE Goto(p, StaleDecision(lock.content))
    /\ UNCHANGED <<use_cache, level, acquired, ended, lock, complete, checksum,
                   root, tmp, cache0, aux>>

\* fs::remove_file(&lock_path)?: whatever file is at the path now
LockRemove(p) ==
    /\ pc[p] = "lock_remove"
    /\ IF lock = NoLock
       THEN Fail(p, "io") /\ UNCHANGED lock
       ELSE Goto(p, "lock_create") /\ lock' = NoLock /\ UNCHANGED ended
    /\ UNCHANGED <<use_cache, level, acquired, complete, checksum, root, tmp,
                   cache0, aux>>

\* OpenOptions::new().write(true).create_new(true).open(&lock_path)
LockCreate(p) ==
    /\ pc[p] = "lock_create"
    /\ IF lock = NoLock
       THEN lock' = [creator |-> p, content |-> <<>>] /\ Goto(p, "lock_write")
       ELSE UNCHANGED lock /\ Goto(p, "wait")     \* AlreadyExists: Ok(false)
    /\ UNCHANGED <<use_cache, level, acquired, ended, complete, checksum, root,
                   tmp, cache0, aux>>

\* writeln!(file, "{pid}") through the descriptor p opened; Ok(true)
LockWrite(p) ==
    /\ pc[p] = "lock_write"
    /\ lock' = IF lock.creator = p
               THEN [lock EXCEPT !.content = PidLine(Pid(p))]
               ELSE lock
    /\ acquired' = [acquired EXCEPT ![p] = TRUE]
    /\ Goto(p, "mktemp")
    /\ UNCHANGED <<use_cache, level, ended, complete, checksum, root, tmp, cache0, aux>>

\* release_lock: fs::remove_file(&lock_path), an error only logged
release_lock == NoLock

\* --------------------------------------------------------- the extractor
\* fs::create_dir_all(tmp/<pid>)
MakeTemp(p) ==
    /\ pc[p] = "mktemp"
    /\ tmp' = [tmp EXCEPT ![p] = {}]
    /\ Goto(p, "extract")
    /\ UNCHANGED <<use_cache, level, acquired, ended, lock, complete, checksum,
                   root, cache0, aux>>

\* a bug: the slots are unpacked into the content root
ExtractSlotsInPlace(p) ==
    /\ pc[p] = "extract"
    /\ root' = [e \in RootNames |->
                  IF e \in SlotEntries
                  THEN [by |-> Pid(p), sub |-> FALSE, fixed |-> FALSE]
                  ELSE root[e]]
    /\ Goto(p, "setup")
    /\ UNCHANGED <<use_cache, level, acquired, ended, lock, complete, checksum,
                   tmp, cache0, aux>>

\* extract_slots(&mut reader, &temp_extract_dir): every slot into tmp/<pid>;
\* on Err the staging directory is removed and the lock released
ExtractSlots(p) ==
    /\ pc[p] = "extract"
    /\ \E ok \in BOOLEAN :
          IF ok
          THEN /\ tmp' = [tmp EXCEPT ![p] = SlotEntries]
               /\ Goto(p, "setup")
               /\ UNCHANGED <<lock, ended>>
          ELSE /\ tmp' = [tmp EXCEPT ![p] = NoDir]
               /\ lock' = release_lock
               /\ Fail(p, "extraction")
    /\ UNCHANGED <<use_cache, level, acquired, complete, checksum, root, cache0, aux>>

\* psp.json, then execute_setup_commands in tmp/<pid>, then the init paths;
\* on Err the staging directory is removed and the lock released
SetupCommands(p) ==
    /\ pc[p] = "setup"
    /\ \E ok \in BOOLEAN :
          IF ok
          THEN /\ Goto(p, "move")
               /\ UNCHANGED <<tmp, lock, ended>>
          ELSE /\ tmp' = [tmp EXCEPT ![p] = NoDir]
               /\ lock' = release_lock
               /\ Fail(p, "setup")
    /\ UNCHANGED <<use_cache, level, acquired, complete, checksum, root, cache0, aux>>

\* one turn of the move loop: remove the destination if it exists, rename
\* tmp/<pid>/<e> to <root>/<e>
MoveEntry(p, e) ==
    /\ pc[p] = "move"
    /\ e \in tmp[p]
    /\ root' = [root EXCEPT ![e] = [by |-> Pid(p), sub |-> FALSE, fixed |-> FALSE]]
    /\ tmp' = [tmp EXCEPT ![p] = @ \ {e}]
    /\ IF tmp[p] = {e} THEN Goto(p, "finish") ELSE UNCHANGED pc
    /\ UNCHANGED <<use_cache, level, acquired, ended, lock, complete, checksum,
                   cache0, aux>>

\* fix_shebangs rewrites the scripts of <root>/bin that name tmp/<pid>; the
\* staging directory is removed; index.json is saved
Finalize(p) ==
    /\ pc[p] = "finish"
    /\ root' = [root EXCEPT !["bin"] =
                   IF @.by = Pid(p) THEN [@ EXCEPT !.fixed = TRUE] ELSE @]
    /\ tmp' = [tmp EXCEPT ![p] = NoDir]
    /\ Goto(p, "mark")
    /\ UNCHANGED <<use_cache, level, acquired, ended, lock, complete, checksum,
                   cache0, aux>>

\* mark_extraction_complete
MarkComplete(p) ==
    /\ pc[p] = "mark"
    /\ complete' = PidLine(Pid(p))
    /\ Goto(p, "save")
    /\ UNCHANGED <<use_cache, level, acquired, ended, lock, checksum, root, tmp,
                   cache0, aux>>

\* a bug: the checksum is not written
SaveChecksumSkipped(p) ==
    /\ pc[p] = "save"
    /\ Goto(p, "release")
    /\ UNCHANGED <<use_cache, level, acquired, ended, lock, complete, checksum,
                   root, tmp, cache0, aux>>

\* save_package_checksum(&paths, index.index_checksum)
SaveChecksum(p) ==
    /\ pc[p] = "save"
    /\ checksum' = Hex8(PkgChecksum)
    /\ Goto(p, "release")
    /\ UNCHANGED <<use_cache, level, acquired, ended, lock, complete, root, tmp,
                   cache0, aux>>

\* release_lock(&paths) at the end of a successful extraction
ReleaseLock(p) ==
    /\ pc[p] = "release"
    /\ lock' = release_lock
    /\ Goto(p, "run")
    /\ UNCHANGED <<use_cache, level, acquired, ended, complete, checksum, root,
                   tmp, cache0, aux>>

\* ------------------------------------------------------------ the waiter
\* wait_for_extraction: a poll that finds the lock file gone
WaitPoll(p) ==
    /\ pc[p] = "wait"
    /\ lock = NoLock
    /\ Goto(p, "recheck")
    /\ UNCHANGED <<use_cache, level, acquired, ended, lock, complete, checksum,
                   root, tmp, cache0, aux>>

\* wait_for_extraction: max_attempts polls all found the lock file
WaitTimeout(p) ==
    /\ pc[p] = "wait"
    /\ lock # NoLock
    /\ Fail(p, "timeout")
    /\ UNCHANGED <<use_cache, level, acquired, lock, complete, checksum, root,
                   tmp, cache0, aux>>

\* a bug: the waiter goes on without looking at the cache again
RecheckIgnored(p) ==
    /\ pc[p] = "recheck"
    /\ Goto(p, "run")
    /\ UNCHANGED <<use_cache, level, acquired, ended, lock, complete, checksum,
                   root, tmp, cache0, aux>>

\* launch() lines 412-428: check_workenv_validity_full after the wait
Recheck(p) ==
    /\ pc[p] = "recheck"
    /\ LET v == check_workenv_validity_full(level[p]) IN
          IF v = "valid" THEN Goto(p, "run") /\ UNCHANGED ended
          ELSE IF v = "invalid" THEN Fail(p, "peer_invalid")
          ELSE Fail(p, "checksum")
    /\ UNCHANGED <<use_cache, level, acquired, lock, complete, checksum, root,
                   tmp, cache0, aux>>

\* ------------------------------------------------------- command and death
\* the packaged command runs against the content root and ends
RunCommand(p) ==
    /\ pc[p] = "run"
    /\ Goto(p, "done")
    /\ UNCHANGED <<use_cache, level, acquired, ended, lock, complete, checksum,
                   root, tmp, cache0, aux>>

\* between create_new and the return of release_lock
LockHeld == {"lock_write", "mktemp", "extract", "setup", "move", "finish",
             "mark", "save", "release"}

\* the process dies (SIGKILL, power loss) and nothing is cleaned up.  Before
\* create_new a dead launch leaves nothing a stopped one does not, so death is
\* a step of its own only from there on.
Crash(p) ==
    /\ pc[p] \in LockHeld
    /\ Goto(p, "crashed")
    /\ UNCHANGED <<use_cache, level, acquired, ended, lock, complete, checksum,
                   root, tmp, cache0, aux>>

Next ==
    \E p \in Procs :
        \/ Prepare(p)
        \/ CheckValidity(p)
        \/ CheckDiskSpace(p)
        \/ LockExists(p)
        \/ LockRead(p)
        \/ LockRemove(p)
        \/ LockCreate(p)
        \/ LockWrite(p)
        \/ MakeTemp(p)
        \/ ExtractSlots(p)
        \/ SetupCommands(p)
        \/ \E e \in SlotEntries : MoveEntry(p, e)
        \/ Finalize(p)
        \/ MarkComplete(p)
        \/ SaveChecksum(p)
        \/ ReleaseLock(p)
        \/ WaitPoll(p)
        \/ WaitTimeout(p)
        \/ Recheck(p)
        \/ RunCommand(p)
        \/ Crash(p)

Spec == Init /\ [][Next]_vars

SpecOld == InitOld /\ [][Next]_vars

SpecExtra == InitExtra /\ [][Next]_vars

\* one launch, alone, of a package that may have been changed after its build
\* or is no package at all, under any FLAVOR_VALIDATION, against a fresh cache
\* or the cache of an earlier build
InitSolo ==
    /\ NotStarted({1})
    /\ \E lvl \in Levels : level = [p \in Procs |-> lvl]
    /\ \/ FreshCache /\ cache0 = "fresh"
       \/ OldCache /\ cache0 = "old"
    /\ package \in Packages
    /\ inp = NoCall /\ out = NoCall

\* the steps of a launch no other launch runs beside
NextSolo ==
    \/ Prepare(1)
    \/ CheckValidity(1)
    \/ CheckDiskSpace(1)
    \/ LockExists(1)
    \/ LockCreate(1)
    \/ LockWrite(1)
    \/ MakeTemp(1)
    \/ ExtractSlots(1)
    \/ SetupCommands(1)
    \/ \E e \in SlotEntries : MoveEntry(1, e)
    \/ Finalize(1)
    \/ MarkComplete(1)
    \/ SaveChecksum(1)
    \/ ReleaseLock(1)
    \/ RunCommand(1)
    \/ Crash(1)

SpecSolo == InitSolo /\ [][NextSolo]_vars

\* a file-system call of the extractor that is followed by `?` returns an
\* error: create_dir_all of tmp/<pid> or set_permissions, the write of
\* psp.json, read_dir, remove or copy in the move loop, the creation of the
\* complete marker.  launch() returns the error at once.
IoSteps == {"mktemp", "setup", "move", "mark"}

IoError(p) ==
    /\ pc[p] \in IoSteps
    /\ Fail(p, "io")
    /\ UNCHANGED <<use_cache, level, acquired, lock, complete, checksum, root,
                   tmp, cache0, aux>>

\* one launch on a file system whose calls can fail
NextFaulty ==
    \/ NextSolo
    \/ IoError(1)

SpecFaulty == InitSolo /\ [][NextFaulty]_vars

\* concurrent launches on a file system whose calls can fail
NextFaultyPair ==
    \/ Next
    \/ \E p \in Procs : IoError(p)

SpecFaultyPair == Init /\ [][NextFaultyPair]_vars

\* ------------------------------------------------ opening a file by its path
\* the lengths of the files that are opened
FileSizes == {0, 1, 4, ShortSize, MAGIC_TRAILER_SIZE - 1, MAGIC_TRAILER_SIZE,
              MAGIC_TRAILER_SIZE + 1, MAGIC_TRAILER_SIZE + PayloadSize}

\* files of any length, the trailer emoji there or not
OpenedFiles == [file_size : FileSizes, tampered : SUBSET {"head", "wand"}]

\* verify_package: detect_package_format, then verify()
verify_package(pkg, overflow_checks) ==
    IF detect_package_format(pkg) # "PSPF2025" THEN "unsupported"
    ELSE verify(pkg, overflow_checks).err

\* show_info, show_metadata, verify_bundle, extract_slot of the CLI:
\* Reader::new, read_index, read_metadata
cli_reader(pkg, overflow_checks) ==
    IF read_index(pkg, overflow_checks) # "ok"
    THEN read_index(pkg, overflow_checks)
    ELSE read_metadata(pkg)

\* a file is about to be opened, no launch is under way
InitOpen ==
    /\ NotStarted({})
    /\ level = [p \in Procs |-> DefaultLevel]
    /\ FreshCache
    /\ cache0 = "fresh"
    /\ package \in OpenedFiles
    /\ inp = NoCall /\ out = NoCall

\* the result of entry path `entry`, in a build with or without overflow checks
Opened(entry, result) ==
    /\ inp = NoCall
    /\ inp' = [call |-> entry]
    /\ out' = [call |-> entry, result |-> result]
    /\ UNCHANGED <<pc, use_cache, level, acquired, ended, lock, complete,
                   checksum, root, tmp, cache0, package>>

OpenByLaunch ==
    \E overflow_checks \in BOOLEAN :
        Opened("launch_package", launch_package(package, DefaultLevel, overflow_checks))

OpenByVerifyPackage ==
    \E overflow_checks \in BOOLEAN :
        Opened("verify_package", verify_package(package, overflow_checks))

OpenByVerify ==
    \E overflow_checks \in BOOLEAN :
        Opened("verify", verify(package, overflow_checks).err)

OpenByCli ==
    \E overflow_checks \in BOOLEAN :
        Opened("cli", cli_reader(package, overflow_checks))

NextOpen ==
    \/ OpenByLaunch
    \/ OpenByVerifyPackage
    \/ OpenByVerify
    \/ OpenByCli

SpecOpen == InitOpen /\ [][NextOpen]_vars

\* ------------------------------------------------------ operation chains
OP_TAR == 1
OP_GZIP == 16

\* the longest operation vector that is packed
MaxOps == 9

\* operation codes: the two known ones and an unknown one
Ops == {OP_TAR, OP_GZIP, 255}

\* a | b of two bytes, bit by bit from bit `bit` up
RECURSIVE BitOrFrom(_, _, _)
BitOrFrom(a, b, bit) ==
    IF bit = 256 THEN 0
    ELSE (IF (a \div bit) % 2 = 1 \/ (b \div bit) % 2 = 1 THEN bit ELSE 0)
         + BitOrFrom(a, b, bit * 2)

BitOr(a, b) == BitOrFrom(a, b, 1)

\* a u64 as its eight bytes, the lowest first
ZeroU64 == [index \in 0 .. 7 |-> 0]

\* packed |= (op as u64) << (index * 8)
OrShifted(packed, op, index) ==
    [packed EXCEPT ![index] = BitOr(packed[index], op)]

\* a bug: the operations past the eighth are or-ed into the low bytes again
RECURSIVE pack_wrapping(_, _, _)
pack_wrapping(operations, index, packed) ==
    IF index >= Len(operations) THEN packed
    ELSE pack_wrapping(operations, index + 1,
                       OrShifted(packed, operations[index + 1], index % 8))

\* the loop of pack_operations from `index` on
RECURSIVE pack_from(_, _, _)
pack_from(operations, index, packed) ==
    IF index >= Len(operations) \/ index >= 8 THEN packed
    ELSE pack_from(operations, index + 1,
                   OrShifted(packed, operations[index + 1], index))

pack_operations(operations) == pack_from(operations, 0, ZeroU64)

\* the loop of unpack_operations from `index` on: ((packed & mask) >> shift)
\* is byte `index`, pushed unless it is zero
RECURSIVE unpack_from(_, _, _)
unpack_from(packed, index, operations) ==
    IF index = 8 THEN operations
    ELSE unpack_from(packed, index + 1,
                     IF packed[index] # 0 THEN Append(operations, packed[index])
                     ELSE operations)

unpack_operations(packed) == unpack_from(packed, 0, <<>>)

\* the operation vectors of non-zero codes up to MaxOps long
Vectors == UNION {[1 .. n -> Ops] : n \in 0 .. MaxOps}

\* a vector is about to be packed, no launch is under way
InitOps ==
    /\ NotStarted({})
    /\ level = [p \in Procs |-> DefaultLevel]
    /\ FreshCache
    /\ cache0 = "fresh"
    /\ package = Intact
    /\ \E v \in Vectors : inp = [call |-> "pack_operations", operations |-> v]
    /\ out = NoCall

Pack ==
    /\ out = NoCall
    /\ out' = [call |-> "pack_operations",
               packed |-> pack_operations(inp.operations)]
    /\ UNCHANGED <<pc, use_cache, level, acquired, ended, lock, complete,
                   checksum, root, tmp, cache0, package, inp>>

Unpack ==
    /\ out.call = "pack_operations"
    /\ out' = [call |-> "unpack_operations", packed |-> out.packed,
               operations |-> unpack_operations(out.packed)]
    /\ UNCHANGED <<pc, use_cache, level, acquired, ended, lock, complete,
                   checksum, root, tmp, cache0, package, inp>>

NextOps == Pack \/ Unpack

SpecOps == InitOps /\ [][NextOps]_vars

\* psp/operations/chain.rs, unpack_operations: the loop from byte `index`
\* on, left at the first zero byte
RECURSIVE chain_unpack_from(_, _, _)
chain_unpack_from(packed, index, operations) ==
    IF index = 8 THEN operations
    ELSE IF packed[index] = 0 THEN operations
    ELSE chain_unpack_from(packed, index + 1,
                           Append(operations, packed[index]))

chain_unpack_operations(packed) == chain_unpack_from(packed, 0, <<>>)

\* the bytes of the `operations` field of a slot descriptor read from a file
DescriptorBytes == {0, OP_TAR, OP_GZIP}

PackedValues == [0 .. 7 -> DescriptorBytes]

\* a packed value is about to be unpacked, no launch is under way
InitUnpack ==
    /\ NotStarted({})
    /\ level = [p \in Procs |-> DefaultLevel]
    /\ FreshCache
    /\ cache0 = "fresh"
    /\ package = Intact
    /\ \E v \in PackedValues : inp = [call |-> "unpack_operations", packed |-> v]
    /\ out = NoCall

\* format_2025::operations::unpack_operations, which extract_slot calls
UnpackDescriptor ==
    /\ out.call # "format_2025"
    /\ out' = [call |-> "format_2025", packed |-> inp.packed,
               operations |-> unpack_operations(inp.packed)]
    /\ UNCHANGED <<pc, use_cache, level, acquired, ended, lock, complete,
                   checksum, root, tmp, cache0, package, inp>>

\* psp::operations::unpack_operations
UnpackChain ==
    /\ out.call # "chain"
    /\ out' = [call |-> "chain", packed |-> inp.packed,
               operations |-> chain_unpack_operations(inp.packed)]
    /\ UNCHANGED <<pc, use_cache, level, acquired, ended, lock, complete,
                   checksum, root, tmp, cache0, package, inp>>

NextUnpack == UnpackDescriptor \/ UnpackChain

SpecUnpack == InitUnpack /\ [][NextUnpack]_vars

\* -------------------------------------------- the slots of the metadata
\* the most entries the `slots` array of a metadata has
MaxMetaSlots == 3

\* the `slot` fields (SlotMetadata.index) of the entries, in array order
SlotIndexes == UNION {[1 .. n -> 0 .. MaxMetaSlots] : n \in 0 .. MaxMetaSlots}

\* a package whose metadata has these slot entries and one descriptor for
\* each; the metadata bytes may have been changed after the build
InitSlots ==
    /\ NotStarted({})
    /\ level = [p \in Procs |-> DefaultLevel]
    /\ FreshCache
    /\ cache0 = "fresh"
    /\ package \in {Intact, [Intact EXCEPT !.tampered = {"sha"}]}
    /\ \E v \in SlotIndexes : inp = [call |-> "extract_slots", slots |-> v]
    /\ out = NoCall

\* extract_slots lines 17-23: reader.read_metadata(), which compares the
\* checksum, inflates and hands the JSON to serde
ReadSlotMetadata ==
    /\ out = NoCall
    /\ out' = [call |-> "extract_slots",
               result |-> IF read_metadata(package) = "ok" THEN "running"
                          ELSE read_metadata(package),
               extracted |-> 0]
    /\ UNCHANGED <<pc, use_cache, level, acquired, ended, lock, complete,
                   checksum, root, tmp, cache0, package, inp>>

\* one turn of the loop of extract_slots: reader.extract_slot(i, ..) takes
\* descriptor i and the target of metadata.slots[i]
ExtractSlotAt ==
    /\ out.call = "extract_slots"
    /\ out.result = "running"
    /\ out.extracted < Len(inp.slots)
    /\ out' = [out EXCEPT !.extracted = @ + 1]
    /\ UNCHANGED <<pc, use_cache, level, acquired, ended, lock, complete,
                   checksum, root, tmp, cache0, package, inp>>

\* the loop is over: Ok((slot_paths, init_paths))
ExtractSlotsOk ==
    /\ out.call = "extract_slots"
    /\ out.result = "running"
    /\ out.extracted = Len(inp.slots)
    /\ out' = [out EXCEPT !.result = "ok"]
    /\ UNCHANGED <<pc, use_cache, level, acquired, ended, lock, complete,
                   checksum, root, tmp, cache0, package, inp>>

NextSlots == ReadSlotMetadata \/ ExtractSlotAt \/ ExtractSlotsOk

SpecSlots == InitSlots /\ [][NextSlots]_vars

\* ------------------------------------------------ the runtime environment
\* names of environment variables, and the one glob pattern of the model
EnvNames == {"HOME", "TOKEN"}
Glob == "*"

\* pattern.contains('*') || pattern.contains('?')
is_glob(pattern) == pattern = Glob

\* runtime.env of the metadata: pass and unset are lists of patterns, map has
\* at most one old=new entry, set assigns values to names
RuntimeEnvs == [pass : SUBSET (EnvNames \cup {Glob}),
                unset : SUBSET (EnvNames \cup {Glob}),
                map : {<<>>} \cup {<<old, new>> : old, new \in EnvNames},
                set : SUBSET EnvNames]

\* PatternProcessor::new: the patterns without a wildcard
exact_matches(pass) == {pattern \in pass : ~is_glob(pattern)}

\* PatternProcessor::should_preserve
should_preserve(pass, key) ==
    \/ key \in exact_matches(pass)
    \/ \E pattern \in pass : is_glob(pattern)

\* UnsetOperation::execute: every pattern removes the names it matches that
\* are not preserved
unset_execute(env_map, unset, pass) ==
    {key \in env_map :
        ~ (/\ \/ Glob \in unset
              \/ key \in unset
           /\ ~should_preserve(pass, key))}

\* MapOperation::execute
map_execute(env_map, map, pass) ==
    IF map = <<>> THEN env_map
    ELSE IF ~should_preserve(pass, map[1]) /\ map[1] \in env_map
    THEN (env_map \ {map[1]}) \cup {map[2]}
    ELSE env_map

\* SetOperation::execute
set_execute(env_map, set) == env_map \cup set

\* PatternProcessor::verify_requirements
verify_requirements(pass, env_map) ==
    IF exact_matches(pass) \ env_map # {} THEN "LaunchError" ELSE "ok"

\* process_runtime_env: unset, map, set, then the verification, whose Err is
\* written to the debug log; the function returns ()
process_runtime_env(env_map, runtime_env) ==
    LET unset == unset_execute(env_map, runtime_env.unset, runtime_env.pass)
        mapped == map_execute(unset, runtime_env.map, runtime_env.pass)
        set == set_execute(mapped, runtime_env.set)
    IN  [env_map |-> set,
         logged |-> verify_requirements(runtime_env.pass, set)]

\* prepare_command is about to be called with this environment of the
\* launcher and this runtime.env; no launch of the other sections is under way
InitEnv ==
    /\ NotStarted({})
    /\ level = [p \in Procs |-> DefaultLevel]
    /\ FreshCache
    /\ cache0 = "fresh"
    /\ package = Intact
    /\ \E vars0 \in SUBSET EnvNames, rt \in RuntimeEnvs :
          inp = [call |-> "prepare_command", env_map |-> vars0,
                 runtime_env |-> rt]
    /\ out = NoCall

\* prepare_command up to line 130: process_runtime_env has returned
ProcessRuntimeEnv ==
    /\ out = NoCall
    /\ out' = [call |-> "process_runtime_env",
               env_map |-> process_runtime_env(inp.env_map,
                                               inp.runtime_env).env_map,
               logged |-> process_runtime_env(inp.env_map,
                                              inp.runtime_env).logged,
               result |-> "pending"]
    /\ UNCHANGED <<pc, use_cache, level, acquired, ended, lock, complete,
                   checksum, root, tmp, cache0, package, inp>>

\* the rest of prepare_command adds variables and returns Ok; launch()
\* executes the command with this environment
ExecuteCommand ==
    /\ out.call = "process_runtime_env"
    /\ out' = [out EXCEPT !.call = "prepare_command", !.result = "executed"]
    /\ UNCHANGED <<pc, use_cache, level, acquired, ended, lock, complete,
                   checksum, root, tmp, cache0, package, inp>>

NextEnv == ProcessRuntimeEnv \/ ExecuteCommand

SpecEnv == InitEnv /\ [][NextEnv]_vars

\* --------------------------------------------------- the reader backends
ACCESS_FILE == 0
ACCESS_MMAP == 1
ACCESS_AUTO == 2
ACCESS_STREAM == 3
\* a mode that is none of the four
ACCESS_OTHER == 4
DEFAULT_CHUNK_SIZE == 64 * 1024

MiB == 1024 * 1024

\* the lengths of the files a backend is created for; NoLength: the path
\* names no file
NoLength == -1
BackendFiles == {NoLength, 0, 4096, MiB, MiB + 1, 2 * MiB, 100 * MiB,
                 100 * MiB + 1}

\* the reads that are made: offsets and lengths around the cache limit of the
\* file backend and the chunk size of the stream backend
ReadOffsets == {0, 4096}
ReadSizes == {0, 1, 4096, DEFAULT_CHUNK_SIZE, DEFAULT_CHUNK_SIZE + 1}

Min(a, b) == IF a < b THEN a ELSE b

\* create_backend: the mode, AUTO resolved by the file size
create_backend(mode, file_size) ==
    LET resolved ==
            IF mode # ACCESS_AUTO THEN mode
            ELSE IF file_size = NoLength THEN ACCESS_FILE
            ELSE IF file_size > 1024 * 1024 THEN ACCESS_MMAP
            ELSE IF file_size > 100 * 1024 * 1024 THEN ACCESS_STREAM
            ELSE ACCESS_FILE
    IN  IF resolved = ACCESS_MMAP THEN "MMapBackend"
        ELSE IF resolved = ACCESS_STREAM THEN "StreamBackend"
        ELSE IF resolved = ACCESS_FILE THEN "FileBackend"
        ELSE "HybridBackend"

\* seek(SeekFrom::Start(offset)) and read_exact of a buffer of `size` bytes:
\* the bytes of the file from `offset` on, `len` of them
seek_read_exact(offset, size, file_size) ==
    IF offset + size > file_size THEN [err |-> "io", offset |-> offset, len |-> 0]
    ELSE [err |-> "ok", offset |-> offset, len |-> size]

\* Backend::read_at of the four backends, the cache of the file backend
\* being empty
backend_read_at(backend, offset, size, file_size) ==
    IF backend = "StreamBackend"
    THEN seek_read_exact(offset, Min(size, DEFAULT_CHUNK_SIZE), file_size)
    ELSE seek_read_exact(offset, size, file_size)

\* Backend::read_slot: the default method of the trait, and the one of the
\* stream backend
backend_read_slot(backend, descriptor, file_size) ==
    IF backend = "StreamBackend"
    THEN backend_read_at(backend, descriptor.offset,
                         Min(descriptor.size, DEFAULT_CHUNK_SIZE), file_size)
    ELSE backend_read_at(backend, descriptor.offset, descriptor.size, file_size)

\* Reader::with_backend is about to be called for a file, and one read through
\* the backend will follow; no launch of the other sections is under way
InitBackend ==
    /\ NotStarted({})
    /\ level = [p \in Procs |-> DefaultLevel]
    /\ FreshCache
    /\ cache0 = "fresh"
    /\ package = Intact
    /\ inp \in [call : {"read_at", "read_slot"},
                mode : {ACCESS_FILE, ACCESS_MMAP, ACCESS_AUTO, ACCESS_STREAM,
                        ACCESS_OTHER},
                file_size : BackendFiles,
                offset : ReadOffsets,
                size : ReadSizes]
    /\ out = NoCall

\* Reader::with_backend: create_backend, then backend.open(path)
CreateBackend ==
    /\ out = NoCall
    /\ out' = [call |-> "create_backend",
               backend |-> create_backend(inp.mode, inp.file_size),
               err |-> IF inp.file_size = NoLength THEN "io" ELSE "ok"]
    /\ UNCHANGED <<pc, use_cache, level, acquired, ended, lock, complete,
                   checksum, root, tmp, cache0, package, inp>>

\* backend.read_at(offset, size)
ReadAt ==
    /\ out.call = "create_backend" /\ out.err = "ok"
    /\ inp.call = "read_at"
    /\ out' = [call |-> "read_at", backend |-> out.backend,
               read |-> backend_read_at(out.backend, inp.offset, inp.size,
                                        inp.file_size)]
    /\ UNCHANGED <<pc, use_cache, level, acquired, ended, lock, complete,
                   checksum, root, tmp, cache0, package, inp>>

\* backend.read_slot(&descriptor)
ReadSlot ==
    /\ out.call = "create_backend" /\ out.err = "ok"
    /\ inp.call = "read_slot"
    /\ out' = [call |-> "read_slot", backend |-> out.backend,
               read |-> backend_read_slot(out.backend,
                                          [offset |-> inp.offset,
                                           size |-> inp.size],
                                          inp.file_size)]
    /\ UNCHANGED <<pc, use_cache, level, acquired, ended, lock, complete,
                   checksum, root, tmp, cache0, package, inp>>

NextBackend == CreateBackend \/ ReadAt \/ ReadSlot

SpecBackend == InitBackend /\ [][NextBackend]_vars

\* ------------------------------------------ the cache of the file backend
\* reads of at most this size are cached
CacheableSize == 4096
\* `self.cache.len() > 100` and `keys().take(20)`
CacheLimit == 100
EvictCount == 20
\* the most descriptors read through one FileBackend
MaxReads == 103
\* the reads of the model: descriptors of SLOT_DESCRIPTOR_SIZE bytes, one per
\* offset, and a read too large to be cached
SmallRead == 64
LargeRead == CacheableSize + 1

\* the keys of the cache as keys() can deliver them first: iteration order of
\* a HashMap is unspecified, and the model takes the orders that go through
\* the keys cyclically by offset from any key `first` on
keys_take(cache, first, n) ==
    {key \in cache :
        (Cardinality({k \in cache : k[1] < key[1]})
         - Cardinality({k \in cache : k[1] < first[1]})) % Cardinality(cache) < n}

\* FileBackend::read_at on an open file large enough for the read: the cache
\* after the call, whether it was a hit, and what was removed
file_read_at(cache, cache_key, first) ==
    IF cache_key \in cache
    THEN [cache |-> cache, hit |-> TRUE, evicted |-> {}]
    ELSE IF cache_key[2] > CacheableSize
    THEN [cache |-> cache, hit |-> FALSE, evicted |-> {}]
    ELSE IF Cardinality(cache \cup {cache_key}) > CacheLimit
    THEN [cache |-> (cache \cup {cache_key})
                        \ keys_take(cache \cup {cache_key}, first, EvictCount),
          hit |-> FALSE,
          evicted |-> keys_take(cache \cup {cache_key}, first, EvictCount)]
    ELSE [cache |-> cache \cup {cache_key}, hit |-> FALSE, evicted |-> {}]

\* FileBackend::open has cleared the cache; no read was made
InitCache ==
    /\ NotStarted({})
    /\ level = [p \in Procs |-> DefaultLevel]
    /\ FreshCache
    /\ cache0 = "fresh"
    /\ package = Intact
    /\ inp = [call |-> "read_at", descriptors |-> 0, cache_key |-> <<0, 0>>]
    /\ out = [call |-> "open", cache |-> {}, hit |-> FALSE, evicted |-> {}]

\* one read_at(offset, size) through the backend, after which `descriptors`
\* descriptors have been read
CacheRead(offset, size, descriptors) ==
    /\ inp' = [call |-> "read_at", descriptors |-> descriptors,
               cache_key |-> <<offset, size>>]
    /\ \E first \in IF Cardinality(out.cache) < CacheLimit
                     THEN {<<offset, size>>}
                     ELSE out.cache \cup {<<offset, size>>} :
          out' = [call |-> "read_at",
                  cache |-> file_read_at(out.cache, <<offset, size>>, first).cache,
                  hit |-> file_read_at(out.cache, <<offset, size>>, first).hit,
                  evicted |-> file_read_at(out.cache, <<offset, size>>,
                                           first).evicted]
    /\ UNCHANGED <<pc, use_cache, level, acquired, ended, lock, complete,
                   checksum, root, tmp, cache0, package>>

\* the next descriptor of the table is read
ReadNext ==
    /\ inp.descriptors < MaxReads
    /\ CacheRead(inp.descriptors * SmallRead, SmallRead, inp.descriptors + 1)

\* the read made last is made again
ReadAgain ==
    /\ inp.descriptors > 0
    /\ CacheRead(inp.cache_key[1], inp.cache_key[2], inp.descriptors)

\* the slot that follows the table is read
ReadLarge ==
    /\ inp.call = "read_at"
    /\ CacheRead(MaxReads * SmallRead, LargeRead, inp.descriptors)

NextCache == ReadNext \/ ReadAgain \/ ReadLarge

SpecCache == InitCache /\ [][NextCache]_vars

\* ------------------------------------------------------ the PE launcher
\* 0xF0
TARGET_DOS_STUB_SIZE == 240
\* 0x80, the e_lfanew of a Go binary, and 0xE8, the least one of a Rust binary
GoStub == 128
RustStub == 232
NoOffset == -1

\* a launcher image by the fields the processing reads and writes: the MZ
\* magic, e_lfanew, whether PE\0\0 stands at e_lfanew, PointerToRawData of a
\* section, SizeOfHeaders, the file offset of the certificate table, CheckSum;
\* the images have no debug directory
Launchers == [mz : BOOLEAN,
              e_lfanew : {64, GoStub, 192, RustStub, 239, TARGET_DOS_STUB_SIZE,
                          256},
              signature : BOOLEAN,
              pointer : {0, 1024},
              size_of_headers : {1024},
              certificate : {0, 4096},
              checksum : {43981}]

is_pe_executable(data) == data.mz

\* get_pe_header_offset: e_lfanew when the PE signature stands there
get_pe_header_offset(data) ==
    IF data.signature THEN data.e_lfanew ELSE NoOffset

needs_dos_stub_expansion(data) ==
    IF ~is_pe_executable(data) THEN FALSE
    ELSE IF get_pe_header_offset(data) = NoOffset THEN FALSE
    ELSE get_pe_header_offset(data) = GoStub

get_launcher_type(launcher_data) ==
    IF ~is_pe_executable(launcher_data) THEN "unknown"
    ELSE IF get_pe_header_offset(launcher_data) = NoOffset THEN "unknown"
    ELSE IF get_pe_header_offset(launcher_data) = GoStub THEN "go"
    ELSE IF get_pe_header_offset(launcher_data) >= RustStub THEN "rust"
    ELSE "unknown"

\* expand_dos_stub: zero bytes inserted before the PE header, e_lfanew set to
\* the target, the absolute file offsets moved by the padding, CheckSum zeroed
expand_dos_stub(data) ==
    IF ~is_pe_executable(data) THEN [err |-> "not_pe", data |-> data]
    ELSE IF get_pe_header_offset(data) = NoOffset
    THEN [err |-> "pe_offset", data |-> data]
    ELSE IF get_pe_header_offset(data) >= TARGET_DOS_STUB_SIZE
    THEN [err |-> "ok", data |-> data]
    ELSE LET padding_size == TARGET_DOS_STUB_SIZE - get_pe_header_offset(data)
         IN  [err |-> "ok",
              data |-> [data EXCEPT
                  !.e_lfanew = TARGET_DOS_STUB_SIZE,
                  !.pointer = IF @ > 0 THEN @ + padding_size ELSE @,
                  !.size_of_headers = @ + padding_size,
                  !.certificate = IF @ >= GoStub THEN @ + padding_size ELSE @,
                  !.checksum = 0]]

process_launcher_for_pspf(launcher_data) ==
    IF ~is_pe_executable(launcher_data)
    THEN [err |-> "ok", data |-> launcher_data]
    ELSE IF get_launcher_type(launcher_data) = "go"
    THEN [err |-> "ok", data |-> launcher_data]
    ELSE IF get_launcher_type(launcher_data) = "rust"
    THEN IF needs_dos_stub_expansion(launcher_data)
         THEN expand_dos_stub(launcher_data)
         ELSE [err |-> "ok", data |-> launcher_data]
    ELSE [err |-> "ok", data |-> launcher_data]

\* write_launcher has read a launcher binary; no launch of the other
\* sections is under way
InitLauncher ==
    /\ NotStarted({})
    /\ level = [p \in Procs |-> DefaultLevel]
    /\ FreshCache
    /\ cache0 = "fresh"
    /\ package = Intact
    /\ \E data \in Launchers :
          inp = [call |-> "process_launcher_for_pspf", data |-> data]
    /\ out = NoCall

\* write_launcher line 113
ProcessLauncher ==
    /\ out = NoCall
    /\ out' = [call |-> "process_launcher_for_pspf",
               err |-> process_launcher_for_pspf(inp.data).err,
               data |-> process_launcher_for_pspf(inp.data).data]
    /\ UNCHANGED <<pc, use_cache, level, acquired, ended, lock, complete,
                   checksum, root, tmp, cache0, package, inp>>

NextLauncher == ProcessLauncher

SpecLauncher == InitLauncher /\ [][NextLauncher]_vars

\* ------------------------------------------------------------ the builder
HEADER_SIZE == 8192
SLOT_DESCRIPTOR_SIZE == 64
SLOT_ALIGNMENT == 8

\* the most slots a manifest of the model has
MaxSlots == 2

\* lengths of launchers, of compressed metadata and of slot files
LauncherSizes == {0, 1, 8, 4099}
MetadataSizes == {20, 21, 24, 31}
SlotSizes == {0, 5, 8}

\* a bug: the offset is rounded down to the boundary
align_down(offset, alignment) == offset - (offset % alignment)

\* align_offset: (offset + alignment - 1) & !(alignment - 1); for the powers
\* of two the builder aligns to, the mask clears the remainder
align_offset(offset, alignment) ==
    (offset + alignment - 1) - ((offset + alignment - 1) % alignment)

\* Index::new(): every offset and size zero
NewIndex == [launcher_size |-> 0, metadata_offset |-> 0, metadata_size |-> 0,
             slot_table_offset |-> 0, slot_table_size |-> 0, slot_count |-> 0,
             package_size |-> 0]

\* what build() is given: the launcher, the compressed metadata of the
\* manifest, the slot files
Builds == [call : {"build"},
           launcher_size : LauncherSizes,
           metadata_size : MetadataSizes,
           slots : UNION {[1 .. n -> SlotSizes] : n \in 0 .. MaxSlots}]

\* build() was called, the output file is created and empty
InitBuild ==
    /\ NotStarted({})
    /\ level = [p \in Procs |-> DefaultLevel]
    /\ FreshCache
    /\ cache0 = "fresh"
    /\ package = Intact
    /\ inp \in Builds
    /\ out = [call |-> "build", step |-> "launcher", pos |-> 0,
              index |-> NewIndex, offsets |-> <<>>]

\* a step of build(): nothing of a launch changes
BuildStep(step) ==
    /\ out.call = "build"
    /\ out.step = step
    /\ UNCHANGED <<pc, use_cache, level, acquired, ended, lock, complete,
                   checksum, root, tmp, cache0, package, inp>>

\* write_launcher, initialize_index, seek to data_start
write_launcher ==
    /\ BuildStep("launcher")
    /\ out' = [out EXCEPT !.step = "metadata",
                          !.index.launcher_size = inp.launcher_size,
                          !.pos = inp.launcher_size + HEADER_SIZE]

write_metadata_bytes ==
    /\ BuildStep("metadata")
    /\ out' = [out EXCEPT !.step = "reserve",
                          !.index.metadata_offset = out.pos,
                          !.index.metadata_size = inp.metadata_size,
                          !.pos = out.pos + inp.metadata_size]

reserve_descriptor_space ==
    /\ BuildStep("reserve")
    /\ out' = [out EXCEPT
                 !.step = "slots",
                 !.index.slot_table_offset = align_offset(out.pos, SLOT_ALIGNMENT),
                 !.index.slot_table_size = Len(inp.slots) * SLOT_DESCRIPTOR_SIZE,
                 !.index.slot_count = Len(inp.slots),
                 !.pos = align_offset(out.pos, SLOT_ALIGNMENT)
                             + Len(inp.slots) * SLOT_DESCRIPTOR_SIZE]

\* one turn of the loop of stream_slot_data: padding, then the slot file
stream_slot_data ==
    /\ BuildStep("slots")
    /\ Len(out.offsets) < Len(inp.slots)
    /\ out' = [out EXCEPT
                 !.offsets = Append(out.offsets, align_offset(out.pos, SLOT_ALIGNMENT)),
                 !.pos = align_offset(out.pos, SLOT_ALIGNMENT)
                             + inp.slots[Len(out.offsets) + 1]]

\* the descriptors go to the reserved space, the position returns to the end
write_descriptor_table ==
    /\ BuildStep("slots")
    /\ Len(out.offsets) = Len(inp.slots)
    /\ out' = [out EXCEPT !.step = "finalize"]

\* finalize_package: package_size, then the trailer with the index
finalize_package ==
    /\ BuildStep("finalize")
    /\ out' = [out EXCEPT !.step = "built",
                          !.index.package_size = out.pos + MAGIC_TRAILER_SIZE,
                          !.pos = out.pos + MAGIC_TRAILER_SIZE]

NextBuild ==
    \/ write_launcher
    \/ write_metadata_bytes
    \/ reserve_descriptor_space
    \/ stream_slot_data
    \/ write_descriptor_table
    \/ finalize_package

SpecBuild == InitBuild /\ [][NextBuild]_vars

\* ---------------------------------------------------- reproducible builds
\* the most entries the env map of a manifest has
MaxEnv == 3

\* the keys of the entries, by number
EnvKeys == 1 .. MaxEnv

\* key seeds and values of SOURCE_DATE_EPOCH
Seeds == {"seed-a", "seed-b"}
Epochs == {0, 1700000000}

\* the orders a HashMap with the keys `keys` is iterated in: std's RandomState
\* draws the hash keys anew in every process
IterationOrders(keys) ==
    {order \in [1 .. Cardinality(keys) -> keys] :
        \A i, j \in 1 .. Cardinality(keys) : order[i] = order[j] => i = j}

\* get_build_info with SOURCE_DATE_EPOCH set to a number: the timestamp of
\* that second, and the host without its name
get_build_info(epoch) == [timestamp |-> epoch, host |-> "os/arch"]

\* create_metadata and serde_json::to_vec_pretty: the fields in the order of
\* the struct, the entries of execution.env in the order the map yields them
to_vec_pretty(manifest, epoch, seeded, order) ==
    <<"PSPF/2025", manifest.command>> \o order
        \o <<get_build_info(epoch).timestamp, seeded, get_build_info(epoch).host>>

\* generate_keys_from_seed and SigningKey::sign: Ed25519 signs
\* deterministically, the signature is a function of key and message
sign(seed, message) == [key |-> seed, message |-> message]

\* compress_and_sign_metadata and the rest of build(): the bytes of the
\* package as far as they depend on the metadata
package_bytes(manifest, seed, epoch, order) ==
    [metadata |-> to_vec_pretty(manifest, epoch, TRUE, order),
     integrity_signature |-> sign(seed, to_vec_pretty(manifest, epoch, TRUE, order))]

\* one manifest, one seed and one epoch, about to be built twice
InitRepro ==
    /\ NotStarted({})
    /\ level = [p \in Procs |-> DefaultLevel]
    /\ FreshCache
    /\ cache0 = "fresh"
    /\ package = Intact
    /\ \E env \in SUBSET EnvKeys, seed \in Seeds, epoch \in Epochs :
          inp = [call |-> "build", seed |-> seed, epoch |-> epoch,
                 manifest |-> [command |-> "run", env |-> env]]
    /\ out = [call |-> "build", built |-> <<>>]

\* one build, in a process of its own
BuildOnce(n) ==
    /\ out.call = "build"
    /\ Len(out.built) = n - 1
    /\ \E order \in IterationOrders(inp.manifest.env) :
          out' = [out EXCEPT !.built =
                     Append(out.built,
                            package_bytes(inp.manifest, inp.seed, inp.epoch, order))]
    /\ UNCHANGED <<pc, use_cache, level, acquired, ended, lock, complete,
                   checksum, root, tmp, cache0, package, inp>>

BuildFirst == BuildOnce(1)

BuildSecond == BuildOnce(2)

NextRepro == BuildFirst \/ BuildSecond

SpecRepro == InitRepro /\ [][NextRepro]_vars

TypeOK ==
    /\ pc \in [Procs -> {"absent", "start", "check", "disk", "lock_exists",
                         "lock_read", "lock_remove", "lock_create", "lock_write",
                         "mktemp", "extract", "setup", "move", "finish", "mark",
                         "save", "release", "wait", "recheck", "run", "done",
                         "failed", "crashed"}]
    /\ use_cache \in [Procs -> BOOLEAN]
    /\ acquired \in [Procs -> BOOLEAN]
    /\ level \in [Procs -> Levels]
    /\ \A p \in Procs : tmp[p] = NoDir \/ tmp[p] \subseteq SlotEntries
    /\ package.file_size \in Nat /\ package.tampered \subseteq Parts

\* ----------------------------------------------------------------- claims
\* every launch uses the cache (FLAVOR_WORKENV_CACHE unset)
DefaultSettings == \A p \in Procs : use_cache[p]

\* no process died
NoCrash == \A p \in Procs : pc[p] # "crashed"

\* no launch returned an error
NoFailure == \A p \in Procs : pc[p] # "failed"

\* launches that took the extractor role: try_acquire_lock returned Ok(true)
Extractors == {p \in Procs : acquired[p]}

\* between the Ok(true) of try_acquire_lock and the return of release_lock
InExtraction == {"mktemp", "extract", "setup", "move", "finish", "mark", "save",
                 "release"}

\* C1: of the launches that race for a fresh cache under the default cache
\* settings, none of which dies or fails, at most one takes the extractor role
\* (runs the setup commands, writes the complete marker).
C1_SingleExtractor ==
    (cache0 = "fresh" /\ DefaultSettings /\ NoCrash /\ NoFailure)
        => Cardinality(Extractors) <= 1

\* C2: the lock gives mutual exclusion: at no instant are two live processes
\* between a successful try_acquire_lock and their release_lock.
C2_MutualExclusion ==
    Cardinality({p \in Extractors : pc[p] \in InExtraction}) <= 1

\* C3: under the default cache settings and without a death or failure, no
\* launch runs the packaged command while another launch is removing or
\* renaming entries of the content root.
C3_NoMoveWhileRunning ==
    (DefaultSettings /\ NoCrash /\ NoFailure)
        => ~ \E p, q \in Procs : pc[p] = "run" /\ pc[q] = "move"

\* C4: the steps an extractor takes after acquiring the lock and before it
\* starts to move entries (creating tmp/<pid>, unpacking the slots, the setup
\* commands), and its death anywhere in between, add, remove or replace
\* nothing in the content root.
C4_StagingLeavesRoot ==
    [][\A p \in Procs :
          (/\ \/ pc[p] \in {"mktemp", "extract", "setup"}
              \/ pc[p] = "move" /\ tmp[p] = SlotEntries
           /\ pc'[p] # pc[p])
              => root' = root]_vars

\* an extractor died with every entry staged and none moved
C4_DiedBeforeMove ==
    \E p \in Procs :
        /\ pc[p] = "crashed"
        /\ acquired[p]
        /\ tmp[p] = SlotEntries

\* q died in the middle of the move loop and its half is still in place
PartialRoot(q) ==
    /\ pc[q] = "crashed"
    /\ \E e \in SlotEntries : root[e].by = Pid(q)
    /\ \E e \in SlotEntries : root[e].by # Pid(q)

\* C5: when an extractor died in the middle of moving entries into the
\* content root, no launch finds the cache valid and goes on to run the
\* command against the half-replaced content.
C5_PartialNotVisible ==
    [][\A p \in Procs :
          (pc[p] \in {"check", "recheck"} /\ pc'[p] = "run")
              => ~ \E q \in Procs : PartialRoot(q)]_vars

\* the marker exists and package.checksum holds the 8 hex digits of the
\* launched package's index_checksum
CacheValidNow == complete # NoFile /\ checksum = Hex8(PkgChecksum)

\* p takes the step that decides on the validity of the cache
ValidityStep(p) == pc[p] \in {"check", "recheck"} /\ pc'[p] # pc[p]

\* the validity of the cache is looked at: always after a wait, and before
\* the lock unless FLAVOR_WORKENV_CACHE is "false" or "0"
ConsultsCache(p) == use_cache[p] \/ pc[p] = "recheck"

C8_WaiterRevalidates ==
    [][\A p \in Procs :
          /\ pc[p] \in {"wait", "recheck"} => ~acquired[p] /\ ~acquired'[p]
          /\ (pc[p] = "wait" /\ pc'[p] # "wait")
                => \/ pc'[p] = "recheck" /\ lock = NoLock
                   \/ pc'[p] = "failed" /\ ended'[p] = "timeout"
          /\ (pc[p] = "recheck" /\ pc'[p] # "recheck")
                => IF CacheValidNow THEN pc'[p] = "run" ELSE pc'[p] = "failed"
          /\ (pc[p] \in {"wait", "recheck"} /\ pc'[p] # pc[p])
                => /\ root' = root
                   /\ tmp' = tmp
                   /\ complete' = complete
                   /\ checksum' = checksum]_vars

\* a waiter saw the lock go away, found the cache still invalid and failed
C8_FailedAfterPeer ==
    \E p \in Procs :
        /\ pc[p] = "failed"
        /\ ended[p] = "peer_invalid"
        /\ ~acquired[p]
        /\ ~CacheValidNow

\* C9: when launches race for a fresh cache under the default settings, no
\* process dies, no wait times out, no extraction or setup command fails and
\* an extractor has finished, no launch that waited has failed.
C9_WaitersProceed ==
    (/\ DefaultSettings
     /\ NoCrash
     /\ \A p \in Procs : ended[p] \notin {"timeout", "extraction", "setup", "io"}
     /\ \E q \in Extractors : pc[q] \in {"run", "done"})
        => \A p \in Procs : pc[p] # "failed"

\* C10: a launch of an extracted package whose cache is valid, started under
\* the default cache settings while no other launch is under way, leaves the
\* content root as it is.
C10_ValidLaunchLeavesRoot ==
    [][\A p \in Procs :
          (/\ pc[p] = "start"
           /\ pc'[p] = "check"
           /\ \A q \in Procs : use_cache'[q]
           /\ CacheValidNow
           /\ \A q \in Procs \ {p} : pc[q] \in {"absent", "done"})
              => root' = root]_vars


\* ------------------------------------------- claims on package verification
\* the five checks of verify() that the file does not pass
FailedChecks(pkg) == pkg.tampered \cap {"adler", "sha", "size", "seal", "wand"}

\* the cache, the lock and the staging directories are as before the launch
Untouched ==
    /\ lock = NoLock
    /\ \A p \in Procs : tmp[p] = NoDir
    /\ IF cache0 = "fresh" THEN FreshCache ELSE OldCache

\* the launch of p returned an error before launch() line 162
RejectedEarly(p) == pc[p] \in {"start", "failed"} /\ Untouched

\* C11: under FLAVOR_VALIDATION=strict a package that fails one of the five
\* checks (index Adler-32, metadata SHA-256, file size, Ed25519 seal, trailing
\* sentinel) makes the launch fail with no workenv directory, lock or staging
\* directory touched and the command not run; signature_valid of verify() is
\* true exactly when all five checks pass.
C11_StrictRejectsEarly ==
    /\ \A p \in Procs :
          (pc[p] # "absent" /\ level[p] = "strict" /\ FailedChecks(package) # {})
              => RejectedEarly(p)
    /\ \A overflow_checks \in BOOLEAN :
          verify(package, overflow_checks).signature_valid
              <=> /\ read_index(package, overflow_checks) = "ok"
                  /\ FailedChecks(package) = {}

\* a strict launch ended on a package of which only the size is wrong
C11_StrictRejectedSize ==
    /\ level[1] = "strict"
    /\ package.file_size >= MAGIC_TRAILER_SIZE
    /\ package.tampered = {"size"}
    /\ pc[1] = "failed"
    /\ ended[1] = "signature"

\* C12: a package whose compressed metadata does not have the SHA-256 the
\* index records makes the launch fail in every validation tier, none included,
\* before the cache is looked at; nothing is extracted, nothing is run.
C12_MetadataMismatchFatal ==
    \A p \in Procs :
        (pc[p] # "absent" /\ "sha" \in package.tampered) => RejectedEarly(p)

\* a launch under FLAVOR_VALIDATION=none ended on the metadata checksum
C12_RejectedUnderNone ==
    /\ level[1] = "none"
    /\ package.tampered = {"sha"}
    /\ pc[1] = "failed"
    /\ ended[1] = "metadata_checksum"

ChecksumMismatch ==
    /\ complete # NoFile
    /\ checksum # NoFile
    /\ Trim(checksum) # Hex8(PkgChecksum)

\* what the first validity check of p does with a mismatch
MismatchHandled(p) ==
    IF level[p] = "strict"
    THEN /\ pc'[p] = "failed"
         /\ ended'[p] = "checksum"
         /\ ~acquired'[p]
         /\ lock' = lock /\ tmp' = tmp /\ root' = root
    ELSE /\ pc'[p] = "disk"
         /\ complete' = complete /\ checksum' = checksum

\* C14 (as amended): a launch that consults the cache and finds the marker
\* with a package.checksum other than the current index checksum fails under
\* strict, the lock not acquired and nothing extracted; under every other tier
\* it takes the cache for invalid and goes on to the lock and the extraction.
C14_MismatchPerTier ==
    [][\A p \in Procs :
          (/\ pc[p] = "check" /\ pc'[p] # "check"
           /\ use_cache[p]
           /\ ChecksumMismatch)
              => MismatchHandled(p)]_vars

\* a strict launch ended on the checksum of the cache of an earlier build
C14_StrictFailedOnCache ==
    /\ level[1] = "strict"
    /\ cache0 = "old"
    /\ pc[1] = "failed"
    /\ ended[1] = "checksum"
    /\ lock = NoLock

\* C14 (as stated): whenever the marker exists and package.checksum differs
\* from the current index checksum, a strict launch fails without the lock
\* and every other launch goes on to re-extract.
C14_MismatchEveryLaunch ==
    [][\A p \in Procs :
          (/\ pc[p] = "check" /\ pc'[p] # "check"
           /\ ChecksumMismatch)
              => MismatchHandled(p)]_vars

\* a built package in which nothing but a byte of the slot data was changed
SlotByteFlipped ==
    /\ package.file_size > MAGIC_TRAILER_SIZE
    /\ package.tampered = {"slots"}

\* C15: for a built package with one byte of its slot data changed, verify()
\* reports the metadata checksum as right and signature_valid as false; a
\* strict launch of it ends on the signature failure, a standard launch goes
\* past the verification.
C15_SlotFlipDetected ==
    SlotByteFlipped =>
        /\ \A p \in Procs :
              (level[p] # "none" /\ pc[p] \notin {"absent", "start"})
                  => /\ verify_metadata_checksum(package)
                     /\ \A overflow_checks \in BOOLEAN :
                           ~verify(package, overflow_checks).signature_valid
        /\ \A p \in Procs :
              (level[p] = "strict" /\ pc[p] \notin {"absent", "start"})
                  => (pc[p] = "failed" /\ ended[p] = "signature")
        /\ \A p \in Procs :
              (level[p] = "standard" /\ pc[p] = "failed")
                  => ended[p] \notin {"signature", "metadata_checksum", "unsupported"}

\* the exit code the table gives to the kind of an error made at `cause`:
\* format errors 102, extraction failures 103, I/O failures 106, signature
\* and checksum failures 107
Tabled == {"bad_trailer", "unknown_op", "gzip", "slot_index", "lock_io",
           "signature", "metadata_checksum", "cached_checksum"}

TableCode(cause) ==
    IF cause \in {"bad_trailer", "unknown_op"} THEN EXIT_PSPF_ERROR
    ELSE IF cause \in {"gzip", "slot_index"} THEN EXIT_EXTRACTION_ERROR
    ELSE IF cause = "lock_io" THEN EXIT_IO_ERROR
    ELSE EXIT_SIGNATURE_ERROR

\* C16: whatever error a failed launch returned, the process ends with the
\* exit code the table gives to the kind of that error.
C16_ExitCodeByKind ==
    \A p \in Procs :
        pc[p] = "failed" =>
            \A e \in LaunchErrors(ended[p]) :
                e.cause \in Tabled => exit_code(to_string(e)) = TableCode(e.cause)

\* ---------------------------------------------------- claims on the reader
\* C17: a file shorter than 8200 bytes, opened on any entry path (launch,
\* verify, the reader of the CLI sub-commands), is answered with a format
\* error: no panic, no read at a wrapped-around offset.
C17_ShortFileIsFormatError ==
    (package.file_size < MAGIC_TRAILER_SIZE /\ out # NoCall)
        => out.result = "unsupported"

\* ------------------------------------------- claims on operation chains
\* the first n elements of a vector, all of it when it is shorter
FirstN(v, n) == IF Len(v) <= n THEN v ELSE SubSeq(v, 1, n)

\* C18: for every operation vector V of non-zero codes, unpacking the packed
\* V gives V when V has at most 8 elements and the first 8 elements of V when
\* it has more.
C18_RoundTrip ==
    out.call = "unpack_operations" => out.operations = FirstN(inp.operations, 8)

\* a vector of nine operations was packed and unpacked
C18_NineUnpacked ==
    /\ out.call = "unpack_operations"
    /\ Len(inp.operations) = 9
    /\ Len(out.operations) = 8

\* ------------------------------------------------- claims on the builder
\* C19: in the index of every built package, for any launcher size and any
\* number of slots, zero included, launcher_size + 8192 <= metadata_offset and
\* metadata_offset + metadata_size <= slot_table_offset.
C19_OffsetsOrdered ==
    (out.call = "build" /\ out.step = "built") =>
        /\ out.index.launcher_size + 8192 <= out.index.metadata_offset
        /\ out.index.metadata_offset + out.index.metadata_size
               <= out.index.slot_table_offset

\* a package with no launcher and no slots was built, its metadata ending off
\* the alignment boundary
C19_BuiltEmpty ==
    /\ out.call = "build" /\ out.step = "built"
    /\ inp.launcher_size = 0
    /\ inp.slots = <<>>
    /\ out.index.metadata_offset + out.index.metadata_size
           < out.index.slot_table_offset

\* C20: two builds of the same manifest, launcher and slots with the same key
\* seed and the same SOURCE_DATE_EPOCH give byte-identical packages, whatever
\* the manifest, env maps of several entries included.
C20_BuildsIdentical ==
    (out.call = "build" /\ Len(out.built) = 2) => out.built[1] = out.built[2]

\* the bytes of the lock file parse as the PID of a running process
LockNamesLive ==
    /\ lock # NoLock
    /\ ParseU32(Trim(lock.content)) # ParseFail
    /\ is_process_running(ParseU32(Trim(lock.content)))

\* the steps of try_acquire_lock before it has a descriptor of its own
InAcquire == {"lock_exists", "lock_read", "lock_remove", "lock_create"}

\* C21: whenever the lock file names a running process, a step another launch
\* takes inside try_acquire_lock leaves the lock file as it is and does not
\* lead that launch to create a lock of its own, under every interleaving.
C21_LiveLockUntouched ==
    [][\A p \in Procs :
          (LockNamesLive /\ pc[p] \in InAcquire /\ pc'[p] # pc[p])
              => (lock' = lock /\ pc'[p] # "lock_write")]_vars

\* launch() is past the extraction branch or has returned
Returned == {"run", "done", "failed"}

\* C22: a launch that acquired the extraction lock has removed the lock file
\* by the time it returns, whether it completed or stopped on an error
\* between the acquisition and the completion.
C22_LockReleasedOnReturn ==
    \A p \in Procs :
        (acquired[p] /\ pc[p] \in Returned) => lock.creator # p

\* every launch that was started has returned or run its command to the end
AllFinished == \A p \in Procs : pc[p] \in {"absent", "done", "failed"}

\* the start-up part of launch p runs to the end, the sweep included
Sweeps(p) == pc[p] = "start" /\ pc'[p] = "check"

\* C23: once all concurrent launches have finished, tmp/ holds no staging
\* directory; and the start-up sweep of a launch removes every tmp/<pid> that
\* a process which is no longer running left behind.
C23_StagingReclaimed ==
    /\ [](AllFinished => \A q \in Procs : tmp[q] = NoDir)
    /\ [][\A p \in Procs :
             Sweeps(p) => \A q \in Procs : ~Live(q) => tmp'[q] = NoDir]_vars

\* how many bytes of a packed value come before its first zero byte
RECURSIVE ChainLength(_, _)
ChainLength(packed, index) ==
    IF index = 8 \/ packed[index] = 0 THEN index
    ELSE ChainLength(packed, index + 1)

\* C24: every unpack routine returns exactly the op codes that come before
\* the first zero byte of the packed value, lowest byte first; codes stored
\* after a zero byte are ignored.
C24_ZeroTerminates ==
    out.call \in {"format_2025", "chain"}
        => out.operations = [i \in 1 .. ChainLength(out.packed, 0) |->
                                out.packed[i - 1]]

\* some entry of the slots array does not carry its own position
Misnumbered(slots) == \E i \in 1 .. Len(slots) : slots[i] # i - 1

\* C25: when some slots[i].index of the metadata differs from i, reading the
\* metadata fails, so extract_slots stops with an error before it has
\* extracted any slot.
C25_MisnumberedRejected ==
    (out.call = "extract_slots" /\ Misnumbered(inp.slots))
        => (out.result \notin {"running", "ok"} /\ out.extracted = 0)

\* an exact name of `pass` is not in the composed environment
MissingRequired ==
    exact_matches(inp.runtime_env.pass) \ out.env_map # {}

\* C26: when, after unset, map and set, an exact name listed in `pass` is
\* absent from the environment, the composition fails with a
\* missing-required-variable error and the command is not executed.
C26_MissingRequiredFails ==
    (out.call \in {"process_runtime_env", "prepare_command"} /\ MissingRequired)
        => (out.result = "LaunchError" /\ out.call # "prepare_command")

\* C27: through every backend, a read_at of an in-range offset and length
\* returns exactly that many bytes of the file from that offset on, and
\* read_slot returns exactly descriptor.size bytes from descriptor.offset on.
C27_BackendsAgree ==
    (out.call \in {"read_at", "read_slot"}
        /\ inp.offset + inp.size <= inp.file_size)
        => out.read = [err |-> "ok", offset |-> inp.offset, len |-> inp.size]

\* C28: automatic selection gives the stream backend to every file larger
\* than 100 MiB, the memory-mapped backend to files larger than 1 MiB and up
\* to 100 MiB, and the plain file backend to smaller files.
C28_SelectionBySize ==
    (out.call = "create_backend" /\ inp.mode = ACCESS_AUTO
        /\ inp.file_size # NoLength)
        => out.backend = IF inp.file_size > 100 * MiB THEN "StreamBackend"
                         ELSE IF inp.file_size > MiB THEN "MMapBackend"
                         ELSE "FileBackend"

\* C29: after any sequence of read_at calls the cache of the file backend is
\* within its bound, and what a call evicts are the least recently used
\* entries, so never the entry that call inserted or hit.
C29_BoundedLru ==
    /\ Cardinality(out.cache) <= CacheLimit
    /\ (out.evicted # {} => inp.cache_key \notin out.evicted)

\* a PE launcher of the Rust/MSVC kind whose DOS stub is shorter than 0xF0
ShortRustStub(data) ==
    /\ get_launcher_type(data) = "rust"
    /\ data.e_lfanew < TARGET_DOS_STUB_SIZE

\* C30: for every PE launcher of the Rust/MSVC kind with e_lfanew < 0xF0,
\* process_launcher_for_pspf returns an image with e_lfanew == 0xF0 whose
\* absolute file offsets were moved by the bytes added.
C30_RustStubExpanded ==
    (out.call = "process_launcher_for_pspf" /\ ShortRustStub(inp.data))
        => /\ out.err = "ok"
           /\ out.data.e_lfanew = TARGET_DOS_STUB_SIZE
           /\ out.data.size_of_headers =
                 inp.data.size_of_headers
                     + (TARGET_DOS_STUB_SIZE - inp.data.e_lfanew)

====
